---- MODULE Spec2Model ----
(***************************************************************************)
(* Model of mcp_server_tree_sitter.language: the LanguageRegistry          *)
(* (registry.py) and the query template catalog (templates/__init__.py).   *)
(*                                                                         *)
(* Spec          request threads calling the registry's public methods     *)
(***************************************************************************)
EXTENDS Integers, Sequences, FiniteSets, TLC

\* ------------------------------------------------------------ bounds
NumThreads == 2
MaxCalls == 2
MaxPathLen == 3
MaxListCalls == 2
MaxDists == 2
MaxTemplateFiles == 2
MaxLiveCalls == 1
MaxPreferred == 3

Threads == 1..NumThreads
NoThread == 0

\* ------------------------------------------------------------ state
VARIABLES
    languages,               \* self.languages: id -> Language handle
    language_map,            \* self._language_map: extension -> id
    installed_languages,     \* self._installed_languages
    language_display_names,  \* self._language_display_names
    lock_owner, lock_count,  \* self._lock (threading.RLock)
    primary_calls,           \* calls of tree_sitter_language_pack.get_language, per id
    fallback_calls,          \* imports of tree_sitter_<id> tried, per id
    pc, op, arg,             \* per thread: position, public method running, its argument
    pack_error,              \* per thread: the exception bound by `except Exception as pack_error`
    parser_error,            \* per thread: the exception handled by get_parser's `except Exception`
    result,                  \* per thread: outcome of the running get_language
    ret,                     \* per thread: outcome of the last public call
    calls_left,              \* per thread: public calls it may still start
    overlapped,              \* per thread: threads whose get_language on the same id overlapped its call
    listed,                  \* log of the list_available_languages calls: <<state read, result>>
    dists,                   \* what importlib.metadata.distributions() yields, in order
    dist_index,              \* the distribution the scan's for loop is at
    discovered,              \* _discover_installed_languages: the local set `discovered`
    scan_pc,                 \* "scan" while _discover_installed_languages runs, then "done"
    template_files,          \* what templates_dir.glob("*.py") yields, in order
    template_index,          \* the file _discover_templates' for loop is at
    templates,               \* the dict `templates` (QUERY_TEMPLATES once returned)
    catalog_pc,              \* "py", then "scm" in _discover_scm_queries, then "done"
    preferred,               \* config.language.preferred_languages
    preferred_index,         \* the id __init__'s pre-load loop is at
    preloaded,               \* how the pre-load of each id so far ended: "return" or "raise"
    init_pc                  \* __init__'s pre-load: "config", "loop", "call", then "done",
                             \* "skipped" (no container), or "aborted" by an exception

registry_vars == <<languages, language_map, installed_languages, language_display_names,
                   lock_owner, lock_count, primary_calls, fallback_calls>>
thread_vars == <<pc, op, arg, pack_error, parser_error, result, ret, calls_left,
                 overlapped, listed>>
scan_vars == <<dists, dist_index, discovered, scan_pc>>
catalog_vars == <<template_files, template_index, templates, catalog_pc>>
preload_vars == <<preferred, preferred_index, preloaded, init_pc>>
vars == <<registry_vars, thread_vars, scan_vars, catalog_vars, preload_vars>>

\* ------------------------------------------------------------ outcomes
Return(v) == [kind |-> "return", val |-> v]
Raise(e) == [kind |-> "raise", exc |-> e]
NoOutcome == [kind |-> "none"]

LanguageNotFoundErrorBare(pe, se) ==
    [kind |-> "raise", exc |-> "LanguageNotFoundError",
     pack_error |-> "none", standalone_error |-> se]

\* registry.py:293-297: the message names both underlying errors
LanguageNotFoundError(pe, se) ==
    [kind |-> "raise", exc |-> "LanguageNotFoundError",
     pack_error |-> pe, standalone_error |-> se]

\* what tree_sitter_language_pack.get_language / ensure_language can do (registry.py:267-270)
PackFailures == {"LookupError"}
PrimaryOutcomes == {"ok"} \cup PackFailures

\* what the standalone path can do (registry.py:279-290): the import fails, the module
\* has no `language`, the factory or ensure_language raises something else, or it works
StandaloneFailures == {"ImportError", "AttributeError", "RuntimeError"}
StandaloneOutcomes == {"ok"} \cup StandaloneFailures

\* what tree_sitter_language_pack.get_parser can do (registry.py:313)
ParserFailures == {"LookupError"}
ParserOutcomes == {"ok"} \cup ParserFailures

\* registry.py:292: except (ImportError, AttributeError) as standalone_error
CaughtStandalone(e) == e \in {"ImportError", "AttributeError"}

\* a Language object: each successful loader call makes a new instance
Handle(id, loader, n) == [id |-> id, loader |-> loader, serial |-> n]

\* ------------------------------------------------------------ str
\* A Python str is modelled as the sequence of its characters.
python == <<"p", "y", "t", "h", "o", "n">>
xpp == <<"x", "p", "p">>
None == <<"<None>">>

\* the characters in code point order (str comparison compares code points)
CharOrder ==
    <<" ", "#", "+", "-", ".", "/", "0", "1", "2", "3", "4", "5", "6", "7", "8", "9",
      "A", "B", "C", "D", "E", "F", "G", "H", "I", "J", "K", "L", "M", "N", "O", "P",
      "Q", "R", "S", "T", "U", "V", "W", "X", "Y", "Z", "_",
      "a", "b", "c", "d", "e", "f", "g", "h", "i", "j", "k", "l", "m", "n", "o", "p",
      "q", "r", "s", "t", "u", "v", "w", "x", "y", "z">>
Chars == {CharOrder[i] : i \in 1..Len(CharOrder)}
Code == [c \in Chars |-> CHOOSE i \in 1..Len(CharOrder) : CharOrder[i] = c]
UpperFirst == Code["A"]
UpperLast == Code["Z"]
LowerFirst == Code["a"]

\* str.lower() on one character, and on a str
LowerChar(c) ==
    IF Code[c] >= UpperFirst /\ Code[c] <= UpperLast
      THEN CharOrder[Code[c] - UpperFirst + LowerFirst]
      ELSE c
Lower(s) == [i \in 1..Len(s) |-> LowerChar(s[i])]

\* sub in s, and str.find: the first index where sub starts in s, 0 when there is none
StartsAt(s, sub, i) == i + Len(sub) - 1 <= Len(s) /\ SubSeq(s, i, i + Len(sub) - 1) = sub
Contains(s, sub) == \E i \in 1..Len(s) + 1 : StartsAt(s, sub, i)
Find(s, sub) == IF Contains(s, sub)
                  THEN CHOOSE i \in 1..Len(s) + 1 :
                         StartsAt(s, sub, i) /\ \A j \in 1..i - 1 : ~StartsAt(s, sub, j)
                  ELSE 0

\* str.split(sep), sep not empty: the parts between the occurrences of sep, left to right
RECURSIVE Split(_, _)
Split(s, sep) ==
    IF Find(s, sep) = 0 THEN <<s>>
    ELSE <<SubSeq(s, 1, Find(s, sep) - 1)>>
         \o Split(SubSeq(s, Find(s, sep) + Len(sep), Len(s)), sep)

\* a < b for two str: the first differing character decides, a proper prefix is smaller
StrLess(a, b) ==
    LET differ == {k \in 1..Len(a) : k <= Len(b) /\ a[k] # b[k]}
    IN  IF differ = {} THEN Len(a) < Len(b)
        ELSE LET k == CHOOSE i \in differ : \A j \in differ : i <= j
             IN  Code[a[k]] < Code[b[k]]

\* sorted(S) for a set of str
RECURSIVE InsertSorted(_, _)
InsertSorted(seq, x) ==
    IF seq = <<>> THEN <<x>>
    ELSE IF StrLess(x, Head(seq)) THEN <<x>> \o seq
    ELSE <<Head(seq)>> \o InsertSorted(Tail(seq), x)
RECURSIVE sorted(_)
sorted(S) ==
    IF S = {} THEN <<>>
    ELSE LET x == CHOOSE y \in S : TRUE IN InsertSorted(sorted(S \ {x}), x)

Range(f) == {f[x] : x \in DOMAIN f}

\* dict.get(key, default)
DictGet(d, key, default) == IF key \in DOMAIN d THEN d[key] ELSE default

\* ------------------------------------------------------------ __init__
\* registry.py:28-66
LanguageMapInit ==
    (<<"p", "y">> :> <<"p", "y", "t", "h", "o", "n">>) @@  \* py: python
    (<<"j", "s">> :> <<"j", "a", "v", "a", "s", "c", "r", "i", "p", "t">>) @@  \* js: javascript
    (<<"t", "s">> :> <<"t", "y", "p", "e", "s", "c", "r", "i", "p", "t">>) @@  \* ts: typescript
    (<<"j", "s", "x">> :> <<"j", "a", "v", "a", "s", "c", "r", "i", "p", "t">>) @@  \* jsx: javascript
    (<<"t", "s", "x">> :> <<"t", "y", "p", "e", "s", "c", "r", "i", "p", "t">>) @@  \* tsx: typescript
    (<<"r", "b">> :> <<"r", "u", "b", "y">>) @@  \* rb: ruby
    (<<"r", "s">> :> <<"r", "u", "s", "t">>) @@  \* rs: rust
    (<<"g", "o">> :> <<"g", "o">>) @@  \* go: go
    (<<"j", "a", "v", "a">> :> <<"j", "a", "v", "a">>) @@  \* java: java
    (<<"c">> :> <<"c">>) @@  \* c: c
    (<<"c", "p", "p">> :> <<"c", "p", "p">>) @@  \* cpp: cpp
    (<<"c", "c">> :> <<"c", "p", "p">>) @@  \* cc: cpp
    (<<"h">> :> <<"c">>) @@  \* h: c
    (<<"h", "p", "p">> :> <<"c", "p", "p">>) @@  \* hpp: cpp
    (<<"c", "s">> :> <<"c", "_", "s", "h", "a", "r", "p">>) @@  \* cs: c_sharp
    (<<"p", "h", "p">> :> <<"p", "h", "p">>) @@  \* php: php
    (<<"s", "c", "a", "l", "a">> :> <<"s", "c", "a", "l", "a">>) @@  \* scala: scala
    (<<"s", "w", "i", "f", "t">> :> <<"s", "w", "i", "f", "t">>) @@  \* swift: swift
    (<<"k", "t">> :> <<"k", "o", "t", "l", "i", "n">>) @@  \* kt: kotlin
    (<<"l", "u", "a">> :> <<"l", "u", "a">>) @@  \* lua: lua
    (<<"h", "s">> :> <<"h", "a", "s", "k", "e", "l", "l">>) @@  \* hs: haskell
    (<<"m", "l">> :> <<"o", "c", "a", "m", "l">>) @@  \* ml: ocaml
    (<<"s", "h">> :> <<"b", "a", "s", "h">>) @@  \* sh: bash
    (<<"y", "a", "m", "l">> :> <<"y", "a", "m", "l">>) @@  \* yaml: yaml
    (<<"y", "m", "l">> :> <<"y", "a", "m", "l">>) @@  \* yml: yaml
    (<<"j", "s", "o", "n">> :> <<"j", "s", "o", "n">>) @@  \* json: json
    (<<"m", "d">> :> <<"m", "a", "r", "k", "d", "o", "w", "n">>) @@  \* md: markdown
    (<<"h", "t", "m", "l">> :> <<"h", "t", "m", "l">>) @@  \* html: html
    (<<"c", "s", "s">> :> <<"c", "s", "s">>) @@  \* css: css
    (<<"s", "c", "s", "s">> :> <<"s", "c", "s", "s">>) @@  \* scss: scss
    (<<"s", "a", "s", "s">> :> <<"s", "c", "s", "s">>) @@  \* sass: scss
    (<<"s", "q", "l">> :> <<"s", "q", "l">>) @@  \* sql: sql
    (<<"p", "r", "o", "t", "o">> :> <<"p", "r", "o", "t", "o">>) @@  \* proto: proto
    (<<"e", "l", "m">> :> <<"e", "l", "m">>) @@  \* elm: elm
    (<<"c", "l", "j">> :> <<"c", "l", "o", "j", "u", "r", "e">>) @@  \* clj: clojure
    (<<"e", "x">> :> <<"e", "l", "i", "x", "i", "r">>) @@  \* ex: elixir
    (<<"e", "x", "s">> :> <<"e", "l", "i", "x", "i", "r">>)  \* exs: elixir

\* registry.py:189-212
common_languages == <<
    <<"p", "y", "t", "h", "o", "n">>,  \* python
    <<"j", "a", "v", "a", "s", "c", "r", "i", "p", "t">>,  \* javascript
    <<"t", "y", "p", "e", "s", "c", "r", "i", "p", "t">>,  \* typescript
    <<"j", "a", "v", "a">>,  \* java
    <<"c">>,  \* c
    <<"c", "p", "p">>,  \* cpp
    <<"g", "o">>,  \* go
    <<"r", "u", "s", "t">>,  \* rust
    <<"r", "u", "b", "y">>,  \* ruby
    <<"p", "h", "p">>,  \* php
    <<"s", "w", "i", "f", "t">>,  \* swift
    <<"k", "o", "t", "l", "i", "n">>,  \* kotlin
    <<"s", "c", "a", "l", "a">>,  \* scala
    <<"b", "a", "s", "h">>,  \* bash
    <<"h", "t", "m", "l">>,  \* html
    <<"c", "s", "s">>,  \* css
    <<"j", "s", "o", "n">>,  \* json
    <<"y", "a", "m", "l">>,  \* yaml
    <<"m", "a", "r", "k", "d", "o", "w", "n">>,  \* markdown
    <<"c", "_", "s", "h", "a", "r", "p">>,  \* c_sharp
    <<"o", "b", "j", "e", "c", "t", "i", "v", "e", "_", "c">>,  \* objective_c
    <<"x", "m", "l">>  \* xml
    >>

EmptyMap == [x \in {} |-> x]

ThreadsInit ==
    /\ pc = [t \in Threads |-> "idle"]
    /\ op = [t \in Threads |-> "none"]
    /\ arg = [t \in Threads |-> <<>>]
    /\ pack_error = [t \in Threads |-> "none"]
    /\ parser_error = [t \in Threads |-> "none"]
    /\ result = [t \in Threads |-> NoOutcome]
    /\ ret = [t \in Threads |-> NoOutcome]
    /\ calls_left = [t \in Threads |-> MaxCalls]
    /\ overlapped = [t \in Threads |-> {}]
    /\ listed = <<>>

LangIds == {python, xpp}

\* the registry after __init__ with no preferred languages configured
RegistryInit ==
    /\ languages = EmptyMap
    /\ language_map = LanguageMapInit
    /\ installed_languages = {xpp}
    /\ language_display_names = (xpp :> <<"X", "+", "+">>)
    /\ lock_owner = NoThread
    /\ lock_count = 0
    /\ primary_calls = [id \in LangIds |-> 0]
    /\ fallback_calls = [id \in LangIds |-> 0]

\* _discover_installed_languages has run and returned
ScanDone ==
    /\ dists = <<>>
    /\ dist_index = 1
    /\ discovered = {}
    /\ scan_pc = "done"

\* templates/__init__.py has been imported: the catalog is built (here from no file)
CatalogDone ==
    /\ template_files = <<>>
    /\ template_index = 1
    /\ templates = EmptyMap
    /\ catalog_pc = "done"

\* registry.py:73-86 with no preferred languages configured: the loop had nothing to load
NoPreload ==
    /\ preferred = <<>>
    /\ preferred_index = 1
    /\ preloaded = <<>>
    /\ init_pc = "done"

Init == RegistryInit /\ ThreadsInit /\ ScanDone /\ CatalogDone /\ NoPreload

\* ------------------------------------------------------------ get_language
\* a thread enters get_language(id): the calls in progress on the same id overlap it
InGetLanguage(u, id) == pc[u] # "idle" /\ arg[u] = id

EnterGetLanguage(t, o, id) ==
    /\ pc[t] = "idle"
    /\ calls_left[t] > 0
    /\ calls_left' = [calls_left EXCEPT ![t] = @ - 1]
    /\ op' = [op EXCEPT ![t] = o]
    /\ arg' = [arg EXCEPT ![t] = id]
    /\ pc' = [pc EXCEPT ![t] = "acquire"]
    /\ result' = [result EXCEPT ![t] = NoOutcome]
    /\ ret' = [ret EXCEPT ![t] = NoOutcome]
    /\ pack_error' = [pack_error EXCEPT ![t] = "none"]
    /\ overlapped' = [u \in Threads |->
                        IF u = t THEN {v \in Threads \ {t} : InGetLanguage(v, id)}
                        ELSE IF InGetLanguage(u, id) THEN overlapped[u] \cup {t}
                        ELSE overlapped[u]]
    /\ UNCHANGED <<scan_vars, catalog_vars, preload_vars>>

\* registry.py:244: a caller invokes get_language(language_name)
get_language(t, id) ==
    /\ EnterGetLanguage(t, "get_language", id)
    /\ parser_error' = [parser_error EXCEPT ![t] = "none"]
    /\ UNCHANGED <<registry_vars, listed>>

AcquireNoWait(t) ==
    /\ pc[t] = "acquire"
    /\ lock_owner' = t
    /\ lock_count' = lock_count + 1
    /\ pc' = [pc EXCEPT ![t] = "check"]
    /\ UNCHANGED <<languages, language_map, installed_languages, language_display_names,
                   primary_calls, fallback_calls, op, arg, pack_error, parser_error,
                   result, ret, calls_left, overlapped, listed>>
    /\ UNCHANGED <<scan_vars, catalog_vars, preload_vars>>

LockFreeNoLock(t) == TRUE

\* registry.py:259: with self._lock (an RLock: free, or already held by this thread)
LockFree(t) == lock_owner \in {NoThread, t}

Acquire(t) ==
    /\ pc[t] = "acquire"
    /\ LockFree(t)
    /\ lock_owner' = t
    /\ lock_count' = lock_count + 1
    /\ pc' = [pc EXCEPT ![t] = "check"]
    /\ UNCHANGED <<languages, language_map, installed_languages, language_display_names,
                   primary_calls, fallback_calls, op, arg, pack_error, parser_error,
                   result, ret, calls_left, overlapped, listed>>
    /\ UNCHANGED <<scan_vars, catalog_vars, preload_vars>>

InCacheNever(id) == FALSE

\* registry.py:260: if language_name in self.languages
InCache(id) == id \in DOMAIN languages

CheckRememberingFailure(t) ==
    /\ pc[t] = "check"
    /\ IF InCache(arg[t])
         THEN /\ result' = [result EXCEPT ![t] = Return(languages[arg[t]])]
              /\ pc' = [pc EXCEPT ![t] = "release"]
         ELSE IF fallback_calls[arg[t]] > 0
           THEN /\ result' = [result EXCEPT ![t] = LanguageNotFoundError("LookupError", "ImportError")]
                /\ pc' = [pc EXCEPT ![t] = "release"]
           ELSE /\ pc' = [pc EXCEPT ![t] = "primary"]
                /\ UNCHANGED result
    /\ UNCHANGED <<registry_vars, op, arg, pack_error, parser_error, ret, calls_left,
                   overlapped, listed>>
    /\ UNCHANGED <<scan_vars, catalog_vars, preload_vars>>

\* registry.py:260-261: cache hit returns the cached object, else go on to the loaders
Check(t) ==
    /\ pc[t] = "check"
    /\ IF InCache(arg[t])
         THEN /\ result' = [result EXCEPT ![t] = Return(languages[arg[t]])]
              /\ pc' = [pc EXCEPT ![t] = "release"]
         ELSE /\ pc' = [pc EXCEPT ![t] = "primary"]
              /\ UNCHANGED result
    /\ UNCHANGED <<registry_vars, op, arg, pack_error, parser_error, ret, calls_left,
                   overlapped, listed>>
    /\ UNCHANGED <<scan_vars, catalog_vars, preload_vars>>

CacheInsertDropping(id, h) == [x \in {id} |-> h]

\* registry.py:271 and 286: self.languages[language_name] = language
CacheInsert(id, h) == [x \in DOMAIN languages \cup {id} |-> IF x = id THEN h ELSE languages[x]]

PrimaryThenFallback(t) ==
    /\ pc[t] = "primary"
    /\ primary_calls' = [primary_calls EXCEPT ![arg[t]] = @ + 1]
    /\ \E out \in PrimaryOutcomes :
          IF out = "ok"
            THEN /\ languages' = CacheInsert(arg[t], Handle(arg[t], "pack", primary_calls'[arg[t]]))
                 /\ UNCHANGED <<pack_error, result>>
            ELSE /\ pack_error' = [pack_error EXCEPT ![t] = out]
                 /\ UNCHANGED <<languages, result>>
    /\ pc' = [pc EXCEPT ![t] = "fallback"]
    /\ UNCHANGED <<language_map, installed_languages, language_display_names, lock_owner,
                   lock_count, fallback_calls, op, arg, parser_error, ret, calls_left,
                   overlapped, listed>>
    /\ UNCHANGED <<scan_vars, catalog_vars, preload_vars>>

\* registry.py:263-273: the language pack is tried first; any Exception goes to the fallback
Primary(t) ==
    /\ pc[t] = "primary"
    /\ primary_calls' = [primary_calls EXCEPT ![arg[t]] = @ + 1]
    /\ \E out \in PrimaryOutcomes :
          IF out = "ok"
            THEN /\ languages' = CacheInsert(arg[t], Handle(arg[t], "pack", primary_calls'[arg[t]]))
                 /\ result' = [result EXCEPT ![t] = Return(languages'[arg[t]])]
                 /\ pc' = [pc EXCEPT ![t] = "release"]
                 /\ UNCHANGED pack_error
            ELSE /\ pack_error' = [pack_error EXCEPT ![t] = out]
                 /\ pc' = [pc EXCEPT ![t] = "fallback"]
                 /\ UNCHANGED <<languages, result>>
    /\ UNCHANGED <<language_map, installed_languages, language_display_names, lock_owner,
                   lock_count, fallback_calls, op, arg, parser_error, ret, calls_left,
                   overlapped, listed>>
    /\ UNCHANGED <<scan_vars, catalog_vars, preload_vars>>

\* registry.py:292-297: what leaves get_language when the standalone path raised e
StandaloneRaise(pe, e) ==
    IF CaughtStandalone(e) THEN LanguageNotFoundError(pe, e) ELSE Raise(e)

\* registry.py:274-297: import tree_sitter_<id> and call its language()
Fallback(t) ==
    /\ pc[t] = "fallback"
    /\ fallback_calls' = [fallback_calls EXCEPT ![arg[t]] = @ + 1]
    /\ \E out \in StandaloneOutcomes :
          IF out = "ok"
            THEN /\ languages' = CacheInsert(arg[t], Handle(arg[t], "standalone", fallback_calls'[arg[t]]))
                 /\ result' = [result EXCEPT ![t] = Return(languages'[arg[t]])]
            ELSE /\ result' = [result EXCEPT ![t] = StandaloneRaise(pack_error[t], out)]
                 /\ UNCHANGED languages
    /\ pc' = [pc EXCEPT ![t] = "release"]
    /\ UNCHANGED <<language_map, installed_languages, language_display_names, lock_owner,
                   lock_count, primary_calls, op, arg, pack_error, parser_error, ret,
                   calls_left, overlapped, listed>>
    /\ UNCHANGED <<scan_vars, catalog_vars, preload_vars>>

\* cache/parser_cache.get_cached_parser: a parser bound to the Language object
get_cached_parser(language) == [parser |-> "cached", language |-> language]

\* a Python bool
Bool(b) == [bool |-> b]

AvailableFromNarrowExcept(outcome) ==
    IF outcome.kind = "raise" /\ outcome.exc # "LanguageNotFoundError"
      THEN outcome ELSE Return(Bool(outcome.kind = "return"))

\* registry.py:238-242: is_language_available turns the outcome into a bool
AvailableFrom(outcome) == Return(Bool(outcome.kind = "return"))

\* registry.py:319-320: get_parser's fallback: language = self.get_language(..); get_cached_parser
ParserFrom(outcome) ==
    IF outcome.kind = "return" THEN Return(get_cached_parser(outcome.val)) ELSE outcome

\* what the public method returns to its caller once get_language has ended
CallerOutcome(o, outcome) ==
    CASE o = "is_language_available" -> AvailableFrom(outcome)
      [] o = "get_parser" -> ParserFrom(outcome)
      [] OTHER -> outcome

ReleaseOnReturn(t) ==
    /\ pc[t] = "release"
    /\ lock_count' = IF result[t].kind = "return" THEN lock_count - 1 ELSE lock_count
    /\ lock_owner' = IF lock_count' = 0 THEN NoThread ELSE lock_owner
    /\ ret' = [ret EXCEPT ![t] = CallerOutcome(op[t], result[t])]
    /\ pc' = [pc EXCEPT ![t] = "idle"]
    /\ pack_error' = [pack_error EXCEPT ![t] = "none"]
    /\ parser_error' = [parser_error EXCEPT ![t] = "none"]
    /\ result' = [result EXCEPT ![t] = NoOutcome]
    /\ UNCHANGED <<languages, language_map, installed_languages, language_display_names,
                   primary_calls, fallback_calls, op, arg, calls_left, overlapped, listed>>
    /\ UNCHANGED <<scan_vars, catalog_vars, preload_vars>>

\* the with block is left (return or raise): the lock is released, the caller goes on
Release(t) ==
    /\ pc[t] = "release"
    /\ lock_count' = lock_count - 1
    /\ lock_owner' = IF lock_count' = 0 THEN NoThread ELSE lock_owner
    /\ ret' = [ret EXCEPT ![t] = CallerOutcome(op[t], result[t])]
    /\ pc' = [pc EXCEPT ![t] = "idle"]
    /\ pack_error' = [pack_error EXCEPT ![t] = "none"]
    /\ parser_error' = [parser_error EXCEPT ![t] = "none"]
    /\ result' = [result EXCEPT ![t] = NoOutcome]
    /\ UNCHANGED <<languages, language_map, installed_languages, language_display_names,
                   primary_calls, fallback_calls, op, arg, calls_left, overlapped, listed>>
    /\ UNCHANGED <<scan_vars, catalog_vars, preload_vars>>

\* registry.py:228-242
is_language_available(t, id) ==
    /\ EnterGetLanguage(t, "is_language_available", id)
    /\ parser_error' = [parser_error EXCEPT ![t] = "none"]
    /\ UNCHANGED <<registry_vars, listed>>

\* a call that returns at once: the thread stays idle with the outcome recorded
Answer(t, o, a, outcome) ==
    /\ pc[t] = "idle"
    /\ op' = [op EXCEPT ![t] = o]
    /\ arg' = [arg EXCEPT ![t] = a]
    /\ ret' = [ret EXCEPT ![t] = outcome]
    /\ UNCHANGED <<pc, pack_error, parser_error, result, calls_left, overlapped>>
    /\ UNCHANGED <<scan_vars, catalog_vars, preload_vars>>

\* tree_sitter_language_pack.get_parser: a parser the pack has bound to the language
PackParser(id) == [parser |-> "pack", language_name |-> id]

get_parserNoFallback(t, id) ==
    \E out \in ParserOutcomes :
       /\ Answer(t, "get_parser", id,
                 IF out = "ok" THEN Return(PackParser(id))
                 ELSE LanguageNotFoundError(out, "none"))
       /\ UNCHANGED <<registry_vars, listed>>

\* registry.py:299-320: the pack's parser first; on any Exception, get_language and the parser cache
get_parser(t, id) ==
    \E out \in ParserOutcomes :
       IF out = "ok"
         THEN /\ Answer(t, "get_parser", id, Return(PackParser(id)))
              /\ UNCHANGED <<registry_vars, listed>>
         ELSE /\ EnterGetLanguage(t, "get_parser", id)
              /\ parser_error' = [parser_error EXCEPT ![t] = out]
              /\ UNCHANGED <<registry_vars, listed>>

\* ------------------------------------------------------------ lookups
Last(s) == s[Len(s)]

FileExtensionNoLower(file_path) ==
    IF Contains(file_path, <<".">>) THEN Last(Split(file_path, <<".">>)) ELSE <<>>

\* registry.py:163: ext = file_path.split(".")[-1].lower() if "." in file_path else ""
FileExtension(file_path) ==
    IF Contains(file_path, <<".">>) THEN Lower(Last(Split(file_path, <<".">>))) ELSE <<>>

\* registry.py:164: return self._language_map.get(ext)
LanguageForFile(file_path) == DictGet(language_map, FileExtension(file_path), None)

\* registry.py:153-164
language_for_file(t, file_path) ==
    /\ Answer(t, "language_for_file", file_path, Return(LanguageForFile(file_path)))
    /\ UNCHANGED <<registry_vars, listed>>

get_language_display_nameOrNone(t, id) ==
    /\ Answer(t, "get_language_display_name", id,
              Return(DictGet(language_display_names, id, None)))
    /\ UNCHANGED <<registry_vars, listed>>

\* registry.py:141-151
get_language_display_name(t, id) ==
    /\ Answer(t, "get_language_display_name", id,
              Return(DictGet(language_display_names, id, id)))
    /\ UNCHANGED <<registry_vars, listed>>

AvailableNoCache ==
    Range(language_map) \cup installed_languages \cup Range(common_languages)

\* registry.py:179-213: loaded ids, the map's values, the discovered ids, the common ids
Available ==
    DOMAIN languages \cup Range(language_map) \cup installed_languages
        \cup Range(common_languages)

\* the registry state list_available_languages reads
ListedState == <<DOMAIN languages, language_map, installed_languages>>

list_available_languagesLoading(t) ==
    /\ Len(listed) < MaxListCalls
    /\ Answer(t, "list_available_languages", <<>>, Return(sorted(Available)))
    /\ listed' = Append(listed, <<ListedState, sorted(Available)>>)
    /\ languages' = [id \in DOMAIN languages \cup installed_languages |->
                       IF id \in DOMAIN languages THEN languages[id]
                       ELSE [id |-> id, loader |-> "pack", serial |-> primary_calls[id] + 1]]
    /\ primary_calls' = [id \in LangIds |->
                           IF id \in installed_languages \ DOMAIN languages
                             THEN primary_calls[id] + 1 ELSE primary_calls[id]]
    /\ UNCHANGED <<language_map, installed_languages, language_display_names, lock_owner,
                   lock_count, fallback_calls>>

\* registry.py:166-216
list_available_languages(t) ==
    /\ Len(listed) < MaxListCalls
    /\ Answer(t, "list_available_languages", <<>>, Return(sorted(Available)))
    /\ listed' = Append(listed, <<ListedState, sorted(Available)>>)
    /\ UNCHANGED registry_vars

\* ------------------------------------------------------------ callers
main_tsx == <<"m", "a", "i", "n", ".", "t", "s", "x">>
README == <<"R", "E", "A", "D", "M", "E">>
x_UNKNOWNEXT == <<"x", ".", "U", "N", "K", "N", "O", "W", "N", "E", "X", "T">>
ExamplePaths == {main_tsx, README, x_UNKNOWNEXT}

\* the paths a caller asks about: every str of up to MaxPathLen of these characters
PathChars == {".", "t", "s", "c", "T"}
StrsOfLen(n) == [1..n -> PathChars]
Paths == UNION {StrsOfLen(n) : n \in 0..MaxPathLen} \cup ExamplePaths

\* a step of a get_language call in progress
GetLanguageStep(t) ==
    \/ Acquire(t)
    \/ Check(t)
    \/ Primary(t)
    \/ Fallback(t)
    \/ Release(t)

\* request threads loading languages and parsers concurrently
Next ==
    \E t \in Threads :
       \/ \E id \in LangIds : get_language(t, id)
       \/ \E id \in LangIds : is_language_available(t, id)
       \/ \E id \in LangIds : get_parser(t, id)
       \/ GetLanguageStep(t)

Spec == Init /\ [][Next]_vars


\* each loader invocation terminates and a running thread goes on running; a thread that
\* finds the lock free again and again gets it
Fairness ==
    \A t \in Threads :
       /\ WF_pc(Check(t) \/ Primary(t) \/ Fallback(t) \/ Release(t))
       /\ SF_pc(Acquire(t))

\* the threads of a new registry, each making MaxLiveCalls calls
InitLive ==
    /\ RegistryInit
    /\ pc = [t \in Threads |-> "idle"]
    /\ op = [t \in Threads |-> "none"]
    /\ arg = [t \in Threads |-> <<>>]
    /\ pack_error = [t \in Threads |-> "none"]
    /\ parser_error = [t \in Threads |-> "none"]
    /\ result = [t \in Threads |-> NoOutcome]
    /\ ret = [t \in Threads |-> NoOutcome]
    /\ calls_left = [t \in Threads |-> MaxLiveCalls]
    /\ overlapped = [t \in Threads |-> {}]
    /\ listed = <<>>
    /\ ScanDone
    /\ CatalogDone
    /\ NoPreload

SpecLive == InitLive /\ [][Next]_vars /\ Fairness

\* one caller using every public method, one call after the other
Caller == CHOOSE t \in Threads : \A u \in Threads : t <= u

NextServe ==
    \/ \E id \in LangIds : get_language(Caller, id)
    \/ \E id \in LangIds : is_language_available(Caller, id)
    \/ \E id \in LangIds : get_parser(Caller, id)
    \/ GetLanguageStep(Caller)
    \/ \E id \in LangIds : get_language_display_name(Caller, id)
    \/ \E file_path \in ExamplePaths : language_for_file(Caller, file_path)
    \/ list_available_languages(Caller)

SpecServe == Init /\ [][NextServe]_vars

\* a caller asking for the language of paths, of a registry that has loaded nothing or python
InitFile ==
    /\ ThreadsInit
    /\ languages \in {EmptyMap, (python :> Handle(python, "pack", 1))}
    /\ language_map = LanguageMapInit
    /\ installed_languages = {xpp}
    /\ language_display_names = (xpp :> <<"X", "+", "+">>)
    /\ lock_owner = NoThread
    /\ lock_count = 0
    /\ primary_calls = [id \in LangIds |-> IF id \in DOMAIN languages THEN 1 ELSE 0]
    /\ fallback_calls = [id \in LangIds |-> 0]
    /\ ScanDone
    /\ CatalogDone
    /\ NoPreload

NextFile == \E file_path \in Paths : language_for_file(Caller, file_path)

SpecFile == InitFile /\ [][NextFile]_vars

\* ------------------------------------------------------------ more str methods
\* str.startswith(prefix)
StartsWith(s, prefix) == StartsAt(s, prefix, 1)

\* sep.join(parts)
RECURSIVE Join(_, _)
Join(parts, sep) ==
    IF Len(parts) = 1 THEN parts[1]
    ELSE parts[1] \o sep \o Join(Tail(parts), sep)

\* str.replace(old, new): every occurrence of old, left to right
Replace(s, old, new) == Join(Split(s, old), new)

\* str.strip(): leading and trailing blanks removed
RECURSIVE LStrip(_)
LStrip(s) == IF s # <<>> /\ Head(s) = " " THEN LStrip(Tail(s)) ELSE s
RECURSIVE RStrip(_)
RStrip(s) == IF s # <<>> /\ s[Len(s)] = " " THEN RStrip(SubSeq(s, 1, Len(s) - 1)) ELSE s
Strip(s) == RStrip(LStrip(s))

\* ------------------------------------------------------------ _discover_installed_languages
tree_sitter_hyphen == <<"t", "r", "e", "e", "-", "s", "i", "t", "t", "e", "r", "-">>
tree_sitter_underscore == <<"t", "r", "e", "e", "_", "s", "i", "t", "t", "e", "r", "_">>
language_pack == <<"l", "a", "n", "g", "u", "a", "g", "e", "_", "p", "a", "c", "k">>
grammar_for_tree_sitter == <<"g", "r", "a", "m", "m", "a", "r", " ", "f", "o", "r", " ", "t", "r", "e", "e", "-", "s", "i", "t", "t", "e", "r">>
Tree_sitter_grammar_for == <<"T", "r", "e", "e", "-", "s", "i", "t", "t", "e", "r", " ", "g", "r", "a", "m", "m", "a", "r", " ", "f", "o", "r", " ">>
grammar == <<"g", "r", "a", "m", "m", "a", "r">>

\* registry.py:107: name.startswith('tree-sitter-') or name.startswith('tree_sitter_')
IsGrammarName(name) ==
    StartsWith(name, tree_sitter_hyphen) \/ StartsWith(name, tree_sitter_underscore)

\* registry.py:111: name.replace('tree-sitter-', '').replace('tree_sitter_', '').replace('-', '_')
LangName(name) ==
    Replace(Replace(Replace(name, tree_sitter_hyphen, <<>>), tree_sitter_underscore, <<>>),
            <<"-">>, <<"_">>)

\* registry.py:112: if lang_name and lang_name != 'language_pack'
KeepLangName(lang_name) == lang_name # <<>> /\ lang_name # language_pack

\* registry.py:121-129: the display name taken from a Summary that is not empty
DisplayName(summary) ==
    IF Contains(summary, <<" ">> \o grammar_for_tree_sitter)
      THEN Split(summary, <<" ">> \o grammar_for_tree_sitter)[1]
    ELSE IF Contains(summary, Tree_sitter_grammar_for)
      THEN Split(summary, Tree_sitter_grammar_for)[2]
    ELSE IF Contains(Lower(summary), grammar_for_tree_sitter)
      THEN Strip(Split(summary, grammar)[1])
    ELSE summary

\* an installed distribution: broken when reading its metadata raises
Dist(name, summary) == [broken |-> FALSE, name |-> name, summary |-> summary]
BrokenDist == [broken |-> TRUE, name |-> <<>>, summary |-> <<>>]

SampleDists == {
    Dist(<<"t", "r", "e", "e", "-", "s", "i", "t", "t", "e", "r", "-", "x", "p", "p">>,
         <<"T", "r", "e", "e", "-", "s", "i", "t", "t", "e", "r", " ", "g", "r", "a", "m", "m", "a", "r", " ", "f", "o", "r", " ", "X", "+", "+">>),   \* tree-sitter-xpp: Tree-sitter grammar for X++
    Dist(<<"t", "r", "e", "e", "_", "s", "i", "t", "t", "e", "r", "_", "c", "_", "s", "h", "a", "r", "p">>,
         <<"C", "#", " ", "g", "r", "a", "m", "m", "a", "r", " ", "f", "o", "r", " ", "t", "r", "e", "e", "-", "s", "i", "t", "t", "e", "r">>),   \* tree_sitter_c_sharp: C# grammar for tree-sitter
    Dist(<<"t", "r", "e", "e", "-", "s", "i", "t", "t", "e", "r", "-", "z", "i", "g">>,
         <<"Z", "i", "g", " ", "g", "r", "a", "m", "m", "a", "r", " ", "f", "o", "r", " ", "T", "r", "e", "e", "-", "s", "i", "t", "t", "e", "r">>),   \* tree-sitter-zig: Zig grammar for Tree-sitter
    Dist(<<"t", "r", "e", "e", "-", "s", "i", "t", "t", "e", "r", "-", "x", "p", "o">>,
         <<"X", "P", "O", " ", "p", "a", "r", "s", "e", "r">>),   \* tree-sitter-xpo: XPO parser
    Dist(<<"t", "r", "e", "e", "_", "s", "i", "t", "t", "e", "r", "_", "x", "p", "o">>, <<>>),   \* tree_sitter_xpo, no Summary
    Dist(<<"t", "r", "e", "e", "-", "s", "i", "t", "t", "e", "r", "-", "l", "a", "n", "g", "u", "a", "g", "e", "-", "p", "a", "c", "k">>, <<>>),   \* tree-sitter-language-pack
    Dist(<<"r", "e", "q", "u", "e", "s", "t", "s">>, <<>>),   \* requests
    Dist(<<"t", "r", "e", "e", "-", "s", "i", "t", "t", "e", "r", "-", "t", "r", "e", "e", "-", "s", "i", "t", "t", "e", "r", "-", "c">>, <<>>),   \* tree-sitter-tree-sitter-c
    Dist(tree_sitter_hyphen, <<>>),   \* tree-sitter-
    BrokenDist }

DistSeqs == UNION {[1..n -> SampleDists] : n \in 0..MaxDists}

\* registry.py:98-99: the scan starts with nothing discovered and no display names
InitDiscover ==
    /\ dists \in DistSeqs
    /\ dist_index = 1
    /\ discovered = {}
    /\ scan_pc = "scan"
    /\ languages = EmptyMap
    /\ language_map = LanguageMapInit
    /\ installed_languages = {}
    /\ language_display_names = EmptyMap
    /\ lock_owner = NoThread
    /\ lock_count = 0
    /\ primary_calls = [id \in LangIds |-> 0]
    /\ fallback_calls = [id \in LangIds |-> 0]
    /\ ThreadsInit
    /\ CatalogDone
    /\ NoPreload

\* registry.py:69 and 139: the set returned becomes self._installed_languages
ScanReturn ==
    /\ installed_languages' = discovered
    /\ scan_pc' = "done"

\* registry.py:113-131: the id is added, and its display name when the Summary is not empty
RecordDist(d) ==
    /\ discovered' = discovered \cup {LangName(d.name)}
    /\ language_display_names' =
          IF d.summary # <<>>
            THEN [id \in DOMAIN language_display_names \cup {LangName(d.name)} |->
                     IF id = LangName(d.name) THEN DisplayName(d.summary)
                     ELSE language_display_names[id]]
            ELSE language_display_names

\* registry.py:101-137: one pass of the for loop; an exception raised in the loop body
\* is caught outside the loop and ends the scan
ScanDistribution ==
    /\ scan_pc = "scan"
    /\ dist_index <= Len(dists)
    /\ IF dists[dist_index].broken
         THEN /\ ScanReturn
              /\ UNCHANGED <<discovered, language_display_names, dist_index>>
         ELSE /\ IF IsGrammarName(dists[dist_index].name)
                    /\ KeepLangName(LangName(dists[dist_index].name))
                   THEN RecordDist(dists[dist_index])
                   ELSE UNCHANGED <<discovered, language_display_names>>
              /\ dist_index' = dist_index + 1
              /\ UNCHANGED <<installed_languages, scan_pc>>
    /\ UNCHANGED <<dists, languages, language_map, lock_owner, lock_count, primary_calls,
                   fallback_calls, thread_vars, catalog_vars, preload_vars>>

\* registry.py:104 and 139: the loop is exhausted and discovered is returned
ScanEnd ==
    /\ scan_pc = "scan"
    /\ dist_index > Len(dists)
    /\ ScanReturn
    /\ UNCHANGED <<dists, dist_index, discovered, languages, language_map,
                   language_display_names, lock_owner, lock_count, primary_calls,
                   fallback_calls, thread_vars, catalog_vars, preload_vars>>

NextDiscover == ScanDistribution \/ ScanEnd

SpecDiscover == InitDiscover /\ [][NextDiscover]_vars

\* ------------------------------------------------------------ templates/__init__.py
\* a template module found by glob("*.py"): its file name, whether importing it raises,
\* whether it has a TEMPLATES attribute, and that dict
TemplateFile(name, raises, has, dict) ==
    [name |-> name, import_raises |-> raises, has_TEMPLATES |-> has, TEMPLATES |-> dict]

\* templates/xpo.py:3-30
xpo_TEMPLATES ==
    (<<"e", "l", "e", "m", "e", "n", "t", "_", "b", "l", "o", "c", "k", "s">> :> "xpo.py:element_blocks") @@
    (<<"e", "l", "e", "m", "e", "n", "t", "_", "t", "y", "p", "e", "s">> :> "xpo.py:element_types") @@
    (<<"p", "r", "o", "p", "e", "r", "t", "i", "e", "s">> :> "xpo.py:properties") @@
    (<<"s", "o", "u", "r", "c", "e", "_", "b", "l", "o", "c", "k", "s">> :> "xpo.py:source_blocks") @@
    (<<"f", "i", "e", "l", "d", "s">> :> "xpo.py:fields") @@
    (<<"m", "e", "t", "h", "o", "d", "s">> :> "xpo.py:methods") @@
    (<<"i", "d", "e", "n", "t", "i", "f", "i", "e", "r", "s">> :> "xpo.py:identifiers") @@
    (<<"g", "u", "i", "d", "s">> :> "xpo.py:guids")

\* templates/c_sharp.py:3-23
c_sharp_TEMPLATES ==
    (<<"c", "l", "a", "s", "s", "e", "s">> :> "c_sharp.py:classes") @@
    (<<"m", "e", "t", "h", "o", "d", "s">> :> "c_sharp.py:methods") @@
    (<<"p", "r", "o", "p", "e", "r", "t", "i", "e", "s">> :> "c_sharp.py:properties") @@
    (<<"i", "n", "t", "e", "r", "f", "a", "c", "e", "s">> :> "c_sharp.py:interfaces") @@
    (<<"u", "s", "i", "n", "g">> :> "c_sharp.py:using")

dot_py == <<".", "p", "y">>
xpo == <<"x", "p", "o">>
go == <<"g", "o">>
methods == <<"m", "e", "t", "h", "o", "d", "s">>
fields == <<"f", "i", "e", "l", "d", "s">>
structs == <<"s", "t", "r", "u", "c", "t", "s">>

SampleTemplateFiles == {
    TemplateFile(xpo \o dot_py, FALSE, TRUE, xpo_TEMPLATES),
    TemplateFile(<<"c", "_", "s", "h", "a", "r", "p">> \o dot_py, FALSE, TRUE, c_sharp_TEMPLATES),
    TemplateFile(<<"_", "_", "i", "n", "i", "t", "_", "_">> \o dot_py, FALSE, FALSE, EmptyMap),   \* __init__.py
    TemplateFile(<<"b", "a", "d">> \o dot_py, TRUE, FALSE, EmptyMap),   \* bad.py: import raises
    TemplateFile(<<"e", "m", "p", "t", "y">> \o dot_py, FALSE, FALSE, EmptyMap) }   \* empty.py: no TEMPLATES

\* a directory lists each file once
Distinct(seq) == \A i, j \in 1..Len(seq) : i # j => seq[i] # seq[j]
TemplateFileSeqs ==
    {fs \in UNION {[1..n -> SampleTemplateFiles] : n \in 0..MaxTemplateFiles} : Distinct(fs)}

\* a .scm file of a queries directory: its stem, its text, whether read_text succeeds
ScmFile(stem, text, readable) == [stem |-> stem, text |-> text, readable |-> readable]
QueriesDirectory(files) == [exists |-> TRUE, files |-> files]
NoDirectory == [exists |-> FALSE, files |-> <<>>]

\* what importing tree_sitter_<lang> gives: "ok", "ImportError" or "Exception"; whether
\* the module has a __file__; the three places a queries directory is looked for
Package(import, has_file, root, package, module) ==
    [import |-> import, has_file |-> has_file, root |-> root, package |-> package,
     module |-> module]
NoPackage == Package("ImportError", FALSE, NoDirectory, NoDirectory, NoDirectory)
PackagedDist(name, package) == [broken |-> FALSE, name |-> name, package |-> package]
BrokenPackagedDist == [broken |-> TRUE, name |-> <<>>, package |-> NoPackage]

SamplePackagedDists == {
    \* tree-sitter-xpo: queries at the root; methods collides with xpo.py, one file unreadable
    PackagedDist(<<"t", "r", "e", "e", "-", "s", "i", "t", "t", "e", "r", "-", "x", "p", "o">>,
        Package("ok", TRUE,
            QueriesDirectory(<<ScmFile(<<"m", "e", "t", "h", "o", "d", "s">>, "tree-sitter-xpo/queries/methods.scm", TRUE),
         ScmFile(<<"l", "o", "c", "a", "l", "-", "v", "a", "r", "s">>, "tree-sitter-xpo/queries/local-vars.scm", TRUE),
         ScmFile(<<"g", "u", "i", "d", "s">>, "tree-sitter-xpo/queries/guids.scm", FALSE)>>),
            NoDirectory, NoDirectory)),
    \* tree_sitter_xpo: a second distribution of the same id, queries beside the module
    PackagedDist(<<"t", "r", "e", "e", "_", "s", "i", "t", "t", "e", "r", "_", "x", "p", "o">>,
        Package("ok", TRUE, NoDirectory, NoDirectory,
            QueriesDirectory(<<ScmFile(<<"m", "e", "t", "h", "o", "d", "s">>, "tree_sitter_xpo/module/queries/methods.scm", TRUE),
         ScmFile(<<"h", "i", "g", "h", "l", "i", "g", "h", "t", "s">>, "tree_sitter_xpo/module/queries/highlights.scm", TRUE)>>))),
    \* tree_sitter_go: no built-in templates; package level wins over module level
    PackagedDist(<<"t", "r", "e", "e", "_", "s", "i", "t", "t", "e", "r", "_", "g", "o">>,
        Package("ok", TRUE, NoDirectory,
            QueriesDirectory(<<ScmFile(<<"s", "t", "r", "u", "c", "t", "s">>, "tree_sitter_go/package/queries/structs.scm", TRUE),
         ScmFile(<<"i", "n", "t", "e", "r", "f", "a", "c", "e", "s">>, "tree_sitter_go/package/queries/interfaces.scm", TRUE)>>),
            QueriesDirectory(<<ScmFile(<<"s", "t", "r", "u", "c", "t", "s">>, "tree_sitter_go/module/queries/structs.scm", TRUE)>>))),
    \* tree-sitter-c-sharp: installed but not importable
    PackagedDist(<<"t", "r", "e", "e", "-", "s", "i", "t", "t", "e", "r", "-", "c", "-", "s", "h", "a", "r", "p">>, NoPackage),
    \* requests
    PackagedDist(<<"r", "e", "q", "u", "e", "s", "t", "s">>, NoPackage),
    BrokenPackagedDist }

PackagedDistSeqs == UNION {[1..n -> SamplePackagedDists] : n \in 0..MaxDists}

\* templates/__init__.py:21-22 and its import: nothing loaded yet
InitCatalog ==
    /\ template_files \in TemplateFileSeqs
    /\ template_index = 1
    /\ templates = EmptyMap
    /\ catalog_pc = "py"
    /\ dists \in PackagedDistSeqs
    /\ dist_index = 1
    /\ discovered = {}
    /\ scan_pc = "done"
    /\ RegistryInit
    /\ ThreadsInit
    /\ NoPreload

\* templates/__init__.py:31: template_file.stem
Stem(name) == SubSeq(name, 1, Len(name) - Len(dot_py))

DictSet(d, key, value) == [k \in DOMAIN d \cup {key} |-> IF k = key THEN value ELSE d[k]]

\* dict.update(other): other's entries are added, and replace those of the same key
DictUpdate(d, other) ==
    [k \in DOMAIN d \cup DOMAIN other |-> IF k \in DOMAIN other THEN other[k] ELSE d[k]]

\* templates/__init__.py:27-45: what one template file leaves in `templates`
LoadTemplate(tpl, file) ==
    IF StartsWith(file.name, <<"_">>) THEN tpl
    ELSE IF file.import_raises THEN tpl
    ELSE IF file.has_TEMPLATES THEN DictSet(tpl, Stem(file.name), file.TEMPLATES)
    ELSE tpl

\* templates/__init__.py:25-45: one pass of the loop over the template files
LoadTemplateFile ==
    /\ catalog_pc = "py"
    /\ template_index <= Len(template_files)
    /\ templates' = LoadTemplate(templates, template_files[template_index])
    /\ template_index' = template_index + 1
    /\ UNCHANGED <<template_files, catalog_pc, registry_vars, thread_vars, scan_vars,
                   preload_vars>>

\* templates/__init__.py:48: the files are exhausted, _discover_scm_queries(templates) starts
StartScmQueries ==
    /\ catalog_pc = "py"
    /\ template_index > Len(template_files)
    /\ catalog_pc' = "scm"
    /\ UNCHANGED <<template_files, template_index, templates, registry_vars, thread_vars,
                   scan_vars, preload_vars>>

\* templates/__init__.py:83-93: the first of the three places that is a directory
QueriesDir(package) ==
    IF package.root.exists THEN package.root
    ELSE IF package.package.exists THEN package.package
    ELSE IF package.module.exists THEN package.module
    ELSE NoDirectory

\* templates/__init__.py:97-104: scm_templates after the loop over the directory's files
RECURSIVE ScmTemplates(_)
ScmTemplates(files) ==
    IF files = <<>> THEN EmptyMap
    ELSE LET before == ScmTemplates(SubSeq(files, 1, Len(files) - 1))
             file == files[Len(files)]
         IN  IF file.readable
               THEN DictSet(before, Replace(file.stem, <<"-">>, <<"_">>), file.text)
               ELSE before

MergeScmReplacing(tpl, lang_name, scm_templates) == DictSet(tpl, lang_name, scm_templates)

\* templates/__init__.py:106-111: merge with the existing templates or create the entry
MergeScm(tpl, lang_name, scm_templates) ==
    IF lang_name \in DOMAIN tpl
      THEN DictSet(tpl, lang_name, DictUpdate(tpl[lang_name], scm_templates))
      ELSE DictSet(tpl, lang_name, scm_templates)

\* templates/__init__.py:72-118: what the package of one grammar distribution leaves in
\* `templates`: nothing when the import raises, the module has no __file__, no queries
\* directory is found or no file was read
LoadQueries(tpl, lang_name, package) ==
    IF package.import # "ok" THEN tpl
    ELSE IF ~package.has_file THEN tpl
    ELSE IF ~QueriesDir(package).exists THEN tpl
    ELSE IF ScmTemplates(QueriesDir(package).files) = EmptyMap THEN tpl
    ELSE MergeScm(tpl, lang_name, ScmTemplates(QueriesDir(package).files))

\* templates/__init__.py:62-121: one pass of the loop over the distributions; an exception
\* raised by dist.metadata is caught outside the loop and ends the scan
ScmDistribution ==
    /\ catalog_pc = "scm"
    /\ dist_index <= Len(dists)
    /\ IF dists[dist_index].broken
         THEN /\ catalog_pc' = "done"
              /\ UNCHANGED <<templates, dist_index>>
         ELSE /\ templates' =
                    IF IsGrammarName(dists[dist_index].name)
                       /\ KeepLangName(LangName(dists[dist_index].name))
                      THEN LoadQueries(templates, LangName(dists[dist_index].name),
                                       dists[dist_index].package)
                      ELSE templates
              /\ dist_index' = dist_index + 1
              /\ UNCHANGED catalog_pc
    /\ UNCHANGED <<template_files, template_index, dists, discovered, scan_pc,
                   registry_vars, thread_vars, preload_vars>>

\* templates/__init__.py:50-51 and 125: the scan is over, templates becomes QUERY_TEMPLATES
EndScmQueries ==
    /\ catalog_pc = "scm"
    /\ dist_index > Len(dists)
    /\ catalog_pc' = "done"
    /\ UNCHANGED <<template_files, template_index, templates, registry_vars, thread_vars,
                   scan_vars, preload_vars>>

NextCatalog == LoadTemplateFile \/ StartScmQueries \/ ScmDistribution \/ EndScmQueries

SpecCatalog == InitCatalog /\ [][NextCatalog]_vars


\* ------------------------------------------------------------ __init__: pre-load
\* the preferred_languages lists a configuration may hold
PreferredLists == UNION {[1..n -> LangIds] : n \in 0..MaxPreferred}

\* registry.py:76-78: the container is imported and gives the configuration, or the
\* import raises ImportError
ConfigOutcomes == {"ok", "ImportError"}

IsExceptionNotFoundOnly(e) == e = "LanguageNotFoundError"

\* registry.py:82: except Exception catches every error get_language can end with
IsException(e) == e \in {"LanguageNotFoundError"} \cup PackFailures \cup StandaloneFailures

\* registry.py:69-73: discovery has returned, the pre-load is about to start; no request
\* thread has the registry yet
InitPreload ==
    /\ RegistryInit
    /\ pc = [t \in Threads |-> "idle"]
    /\ op = [t \in Threads |-> "none"]
    /\ arg = [t \in Threads |-> <<>>]
    /\ pack_error = [t \in Threads |-> "none"]
    /\ parser_error = [t \in Threads |-> "none"]
    /\ result = [t \in Threads |-> NoOutcome]
    /\ ret = [t \in Threads |-> NoOutcome]
    /\ calls_left = [t \in Threads |-> 0]
    /\ overlapped = [t \in Threads |-> {}]
    /\ listed = <<>>
    /\ ScanDone
    /\ CatalogDone
    /\ preferred \in PreferredLists
    /\ preferred_index = 1
    /\ preloaded = <<>>
    /\ init_pc = "config"

\* registry.py:75-78 and 84-86: without the container the pre-load is skipped
LoadConfig ==
    /\ init_pc = "config"
    /\ \E out \in ConfigOutcomes : init_pc' = IF out = "ok" THEN "loop" ELSE "skipped"
    /\ UNCHANGED <<preferred, preferred_index, preloaded, registry_vars, thread_vars,
                   scan_vars, catalog_vars>>

\* registry.py:79-81: self.get_language(lang) for the next preferred id
PreloadCall ==
    /\ init_pc = "loop"
    /\ preferred_index <= Len(preferred)
    /\ pc[Caller] = "idle"
    /\ op' = [op EXCEPT ![Caller] = "__init__"]
    /\ arg' = [arg EXCEPT ![Caller] = preferred[preferred_index]]
    /\ pc' = [pc EXCEPT ![Caller] = "acquire"]
    /\ result' = [result EXCEPT ![Caller] = NoOutcome]
    /\ ret' = [ret EXCEPT ![Caller] = NoOutcome]
    /\ init_pc' = "call"
    /\ UNCHANGED <<preferred, preferred_index, preloaded, registry_vars, pack_error,
                   parser_error, calls_left, overlapped, listed, scan_vars, catalog_vars>>

\* registry.py:80-83: get_language has ended; an Exception is logged and the loop goes
\* on, anything else leaves __init__
PreloadHandled ==
    /\ init_pc = "call"
    /\ pc[Caller] = "idle"
    /\ IF ret[Caller].kind = "raise" /\ ~IsException(ret[Caller].exc)
         THEN /\ init_pc' = "aborted"
              /\ UNCHANGED <<preferred_index, preloaded>>
         ELSE /\ init_pc' = "loop"
              /\ preloaded' = Append(preloaded, ret[Caller].kind)
              /\ preferred_index' = preferred_index + 1
    /\ UNCHANGED <<preferred, registry_vars, thread_vars, scan_vars, catalog_vars>>

\* registry.py:79: the list is exhausted, __init__ returns
PreloadEnd ==
    /\ init_pc = "loop"
    /\ preferred_index > Len(preferred)
    /\ init_pc' = "done"
    /\ UNCHANGED <<preferred, preferred_index, preloaded, registry_vars, thread_vars,
                   scan_vars, catalog_vars>>

NextPreload ==
    \/ LoadConfig
    \/ PreloadCall
    \/ GetLanguageStep(Caller)
    \/ PreloadHandled
    \/ PreloadEnd

SpecPreload == InitPreload /\ [][NextPreload]_vars

\* the positions of the preferred list whose load succeeded
Succeeded == {i \in 1..Len(preloaded) : preloaded[i] = "return"}

\* the positions of id in the list at which id is not yet loaded
Attempts(id) ==
    {i \in 1..Len(preferred) :
        /\ preferred[i] = id
        /\ \A j \in 1..i - 1 : preferred[j] = id => j \notin Succeeded}

\* C19: the pre-load never ends the construction with an error, whatever ids of the
\* preferred list fail to load; when the constructor is through the list every id of it
\* has been tried, also after an earlier one failed, and the cache holds exactly the
\* ids whose load succeeded.
C19_PreloadBestEffort ==
    /\ init_pc # "aborted"
    /\ init_pc = "done" =>
          /\ Len(preloaded) = Len(preferred)
          /\ DOMAIN languages = {preferred[i] : i \in Succeeded}
          /\ \A id \in LangIds : primary_calls[id] = Cardinality(Attempts(id))
          /\ lock_owner = NoThread

C19_Witness ==
    /\ init_pc = "done"
    /\ preferred = <<xpp, python>>
    /\ preloaded = <<"raise", "return">>
    /\ DOMAIN languages = {python}
    /\ fallback_calls[xpp] = 1

\* ------------------------------------------------------------ claims
Done(t, o) == pc[t] = "idle" /\ op[t] = o /\ ret[t].kind # "none"
Returned(t, o) == pc[t] = "idle" /\ op[t] = o /\ ret[t].kind = "return"
Raised(t, o) == pc[t] = "idle" /\ op[t] = o /\ ret[t].kind = "raise"

\* the step gives thread t a new call or a new outcome
NewOutcome(t) ==
    \/ op'[t] # op[t]
    \/ arg'[t] # arg[t]
    \/ ret'[t].kind # ret[t].kind
    \/ ret'[t] # ret[t]

\* C1: once the primary loader has loaded an id, the handle it made stays the cache's
\* entry for the id, every get_language(id) that returns returns that same instance, and
\* neither loader is invoked for the id again: the primary's call count stays at the call
\* that loaded the id (at 1 when the first call succeeded) and the fallback's at the
\* failed calls before it.
C1_CacheHit ==
    \A id \in DOMAIN languages :
       languages[id].loader = "pack" =>
          /\ primary_calls[id] = languages[id].serial
          /\ fallback_calls[id] = languages[id].serial - 1
          /\ \A t \in Threads :
                (Returned(t, "get_language") /\ arg[t] = id) => ret[t].val = languages[id]

C1_Witness ==
    \E id \in DOMAIN languages :
       /\ languages[id] = Handle(id, "pack", 1)
       /\ primary_calls[id] = 1
       /\ fallback_calls[id] = 0
       /\ \E t, u \in Threads :
             /\ t # u
             /\ Returned(t, "get_language") /\ arg[t] = id
             /\ Returned(u, "get_language") /\ arg[u] = id
             /\ calls_left[u] = 0

\* all threads have made get_language(id) their first call, the id uncached before the
\* first of them, and the calls overlapped one another in time
ConcurrentCallers(id) ==
    \A t \in Threads :
       /\ Done(t, "get_language")
       /\ arg[t] = id
       /\ calls_left[t] = MaxCalls - 1
       /\ overlapped[t] = Threads \ {t}

\* C2 as stated: N concurrent callers of one uncached id cause exactly one load attempt
\* and all receive the same handle.
C2_Original ==
    \A id \in LangIds :
       ConcurrentCallers(id) =>
          /\ primary_calls[id] = 1
          /\ \A t \in Threads : ret[t].kind = "return" /\ ret[t] = ret[Caller]

\* C2 amended: of N concurrent callers of one uncached id, every caller whose own load
\* attempt fails raises and every other caller receives the one handle that is cached;
\* the load attempts are one per raising caller plus one if any caller returned, so
\* exactly one attempt is made when no attempt fails.
C2_OneLoad ==
    \A id \in LangIds :
       ConcurrentCallers(id) =>
          LET returned == {t \in Threads : ret[t].kind = "return"}
              raised == {t \in Threads : ret[t].kind = "raise"}
          IN  /\ \A t \in returned : id \in DOMAIN languages /\ ret[t].val = languages[id]
              /\ primary_calls[id] =
                    Cardinality(raised) + (IF returned # {} THEN 1 ELSE 0)
              /\ (raised = {} => primary_calls[id] = 1)

C2_Witness ==
    \E id \in LangIds :
       /\ ConcurrentCallers(id)
       /\ \A t \in Threads : ret[t].kind = "return"
       /\ primary_calls[id] = 1

\* C3 as stated: when both loaders have failed, whatever the failure, get_language
\* raises LanguageNotFoundError and the cache is what it was.
C3_Original ==
    [][\A t \in Threads :
          (pc[t] = "fallback" /\ pc'[t] = "release" /\ result'[t].kind = "raise") =>
             /\ result'[t].exc = "LanguageNotFoundError"
             /\ languages' = languages]_vars

\* a list_available_languages call by t
ListStep(t) ==
    /\ op'[t] = "list_available_languages"
    /\ Len(listed') = Len(listed) + 1

\* C5: list_available_languages invokes no loader, leaves the cache, the extension map and
\* the installed index as they were, and returns the same list whenever it is called
\* again in the same state.
C5_ListIdempotent ==
    [][\A t \in Threads :
          ListStep(t) =>
             /\ UNCHANGED registry_vars
             /\ ret'[t].kind = "return"
             /\ \A i, j \in 1..Len(listed') :
                   listed'[i][1] = listed'[j][1] => listed'[i][2] = listed'[j][2]]_vars

C5_Witness ==
    /\ Len(listed) = MaxListCalls
    /\ listed[1][1] = listed[Len(listed)][1]
    /\ python \in DOMAIN languages
    /\ Returned(Caller, "list_available_languages")

\* C7 as stated: no public call ends with an error other than LanguageNotFoundError.
C7_Original ==
    \A t \in Threads : ret[t].kind = "raise" => ret[t].exc = "LanguageNotFoundError"

\* C8: get_parser returns the pack's parser when the pack provides one; when the pack
\* fails the failure is not surfaced and get_language runs, and get_parser then returns
\* the cached parser of the handle get_language returned, or raises what get_language
\* raised: it raises only after the fast path and the fallback get_language both failed.
C8_ParserFallback ==
    [][\A t \in Threads :
          /\ (pc[t] = "idle" /\ op'[t] = "get_parser" /\ calls_left'[t] # calls_left[t]) =>
                /\ pc'[t] = "acquire"
                /\ parser_error'[t] \in ParserFailures
                /\ ret'[t].kind = "none"
          /\ (op'[t] = "get_parser" /\ NewOutcome(t) /\ ret'[t].kind # "none") =>
                IF pc[t] = "idle"
                  THEN ret'[t] = Return(PackParser(arg'[t]))
                  ELSE /\ pc[t] = "release"
                       /\ parser_error[t] \in ParserFailures
                       /\ IF result[t].kind = "return"
                            THEN /\ arg[t] \in DOMAIN languages
                                 /\ result[t].val = languages[arg[t]]
                                 /\ ret'[t] = Return(get_cached_parser(languages[arg[t]]))
                            ELSE /\ result[t].kind = "raise"
                                 /\ ret'[t] = result[t]]_vars

C8_Witness ==
    \E t, u \in Threads :
       /\ Returned(t, "get_parser") /\ ret[t].val.parser = "cached"
       /\ Raised(u, "get_parser") /\ ret[u].exc = "LanguageNotFoundError"

\* C9: is_language_available never raises; it returns whether its get_language returned
\* a handle; when it returns true the id is cached, and a call that returns false has
\* not changed the cache.
C9_Available ==
    [][\A t \in Threads :
          (op[t] = "is_language_available" /\ pc[t] # "idle" /\ pc'[t] # pc[t]) =>
             /\ languages' # languages =>
                   result'[t].kind = "return" /\ arg[t] \in DOMAIN languages'
             /\ result[t].kind = "raise" => result'[t] \in {result[t], NoOutcome}
             /\ pc'[t] = "idle" =>
                   /\ ret'[t] = Return(Bool(result[t].kind = "return"))
                   /\ ret'[t].val.bool => arg[t] \in DOMAIN languages']_vars

C9_Witness ==
    \E t, u \in Threads :
       /\ Returned(t, "is_language_available") /\ ret[t].val = Bool(TRUE)
       /\ arg[t] \in DOMAIN languages
       /\ Returned(u, "is_language_available") /\ ret[u].val = Bool(FALSE)
       /\ arg[u] \notin DOMAIN languages

\* the characters after the last "." of a path, and whether it has a "."
HasDot(path) == \E i \in 1..Len(path) : path[i] = "."
LastDot(path) == CHOOSE i \in 1..Len(path) :
                    path[i] = "." /\ \A j \in i + 1..Len(path) : path[j] # "."
AfterLastDot(path) == [k \in 1..Len(path) - LastDot(path) |-> path[LastDot(path) + k]]

\* C10: language_for_file returns the map's entry of the lowercased text after the last
\* "." of the path, and none when the path has no "." or that text is no key of the map
\* (main.tsx: typescript, README: none, x.UNKNOWNEXT: none); it changes no registry state.
C10_LanguageForFile ==
    [][\A t \in Threads :
          (op'[t] = "language_for_file" /\ NewOutcome(t)) =>
             /\ UNCHANGED registry_vars
             /\ ret'[t].kind = "return"
             /\ IF HasDot(arg'[t]) /\ Lower(AfterLastDot(arg'[t])) \in DOMAIN language_map
                  THEN ret'[t].val = language_map[Lower(AfterLastDot(arg'[t]))]
                  ELSE ret'[t].val = None
             /\ arg'[t] = main_tsx => ret'[t].val = <<"t", "y", "p", "e", "s", "c", "r", "i", "p", "t">>
             /\ arg'[t] \in {README, x_UNKNOWNEXT} => ret'[t].val = None]_vars

C10_Witness ==
    /\ Returned(Caller, "language_for_file")
    /\ arg[Caller] = <<".", "T", "s">>
    /\ ret[Caller].val = <<"t", "y", "p", "e", "s", "c", "r", "i", "p", "t">>
    /\ python \in DOMAIN languages

\* a distribution the scan should record when taken alone
ValidGrammarDist(d) ==
    ~d.broken /\ IsGrammarName(d.name) /\ KeepLangName(LangName(d.name))

\* C4 as stated: whatever distribution fails in the scan, every valid grammar distribution
\* of the same scan, before or after it, is in the installed index when the scan is over.
C4_Original ==
    scan_pc = "done" =>
       \A i \in 1..Len(dists) :
          ValidGrammarDist(dists[i]) => LangName(dists[i].name) \in installed_languages

\* the built-in modules that give language id its templates
BuiltInFiles(id) ==
    {i \in 1..Len(template_files) :
        /\ ~StartsWith(template_files[i].name, <<"_">>)
        /\ ~template_files[i].import_raises
        /\ template_files[i].has_TEMPLATES
        /\ Stem(template_files[i].name) = id}
HasBuiltIn(id) == BuiltInFiles(id) # {}
BuiltIn(id) == template_files[CHOOSE i \in BuiltInFiles(id) : TRUE].TEMPLATES

\* the query files read from one directory: per name, the text of the last file of that name
ReadFiles(files) ==
    LET read == {i \in 1..Len(files) : files[i].readable}
        name(i) == Replace(files[i].stem, <<"-">>, <<"_">>)
    IN  [n \in {name(i) : i \in read} |->
            files[CHOOSE i \in read : name(i) = n /\ \A j \in read : name(j) = n => j <= i].text]

\* the distributions the scan has read the query files of, for language id
ScannedFor(id) ==
    {i \in 1..Len(dists) :
        /\ \A j \in 1..i : ~dists[j].broken
        /\ IsGrammarName(dists[i].name)
        /\ LangName(dists[i].name) = id
        /\ KeepLangName(id)
        /\ dists[i].package.import = "ok"
        /\ dists[i].package.has_file
        /\ QueriesDir(dists[i].package).exists}

\* the discovered query-file set of language id: a later distribution's file replaces an
\* earlier one's of the same name
DiscoveredNames(id) ==
    UNION {DOMAIN ReadFiles(QueriesDir(dists[i].package).files) : i \in ScannedFor(id)}
DiscoveredText(id, n) ==
    LET has == {i \in ScannedFor(id) : n \in DOMAIN ReadFiles(QueriesDir(dists[i].package).files)}
        last == CHOOSE i \in has : \A j \in has : j <= i
    IN  ReadFiles(QueriesDir(dists[last].package).files)[n]

CatalogIds ==
    {LangName(dists[i].name) : i \in {j \in 1..Len(dists) : ~dists[j].broken}}
        \cup {Stem(template_files[i].name) : i \in 1..Len(template_files)}

\* C6: when the catalog is built, an id with built-in templates B and discovered query
\* files D has exactly the names of B and D, each name of D with D's text and each other
\* name of B with B's text; an id with discovered files only has exactly D.
C6_Merge ==
    catalog_pc = "done" =>
       \A id \in CatalogIds :
          DiscoveredNames(id) # {} =>
             /\ id \in DOMAIN templates
             /\ DOMAIN templates[id] =
                   DiscoveredNames(id) \cup (IF HasBuiltIn(id) THEN DOMAIN BuiltIn(id) ELSE {})
             /\ \A n \in DiscoveredNames(id) : templates[id][n] = DiscoveredText(id, n)
             /\ \A n \in DOMAIN templates[id] \ DiscoveredNames(id) :
                   templates[id][n] = BuiltIn(id)[n]

C6_Witness ==
    /\ catalog_pc = "done"
    /\ xpo \in DOMAIN templates /\ go \in DOMAIN templates
    /\ HasBuiltIn(xpo) /\ ~HasBuiltIn(go)
    /\ templates[xpo][methods] = "tree-sitter-xpo/queries/methods.scm"
    /\ templates[xpo][fields] = "xpo.py:fields"
    /\ <<"l", "o", "c", "a", "l", "_", "v", "a", "r", "s">> \in DOMAIN templates[xpo]
    /\ templates[go][structs] = "tree_sitter_go/package/queries/structs.scm"

\* ------------------------------------------------------------ listing
zig == <<"z", "i", "g">>

\* the ids a registry may have loaded, and those discovery may have found
CachedIds == {python, xpp, zig}
InstalledIds == {xpp, xpo, zig}

\* a registry that has loaded some ids and discovered some, asked to list its languages
InitList ==
    /\ ThreadsInit
    /\ \E ids \in SUBSET CachedIds : languages = [id \in ids |-> Handle(id, "pack", 1)]
    /\ language_map = LanguageMapInit
    /\ installed_languages \in SUBSET InstalledIds
    /\ language_display_names = [id \in installed_languages \cap {xpp} |-> <<"X", "+", "+">>]
    /\ lock_owner = NoThread
    /\ lock_count = 0
    /\ primary_calls = [id \in CachedIds |-> IF id \in DOMAIN languages THEN 1 ELSE 0]
    /\ fallback_calls = [id \in CachedIds |-> 0]
    /\ ScanDone
    /\ CatalogDone
    /\ NoPreload

NextList ==
    \/ list_available_languages(Caller)
    \/ \E id \in CachedIds \cup InstalledIds : get_language_display_name(Caller, id)

SpecList == InitList /\ [][NextList]_vars

\* the four sets of ids, taken from the registry's state and the fixed list
MapValues == {language_map[e] : e \in DOMAIN language_map}
CommonIds == {common_languages[i] : i \in 1..Len(common_languages)}

\* a before b in code point order
Precedes(a, b) ==
    \/ \E k \in 1..Len(a) :
          /\ k <= Len(b)
          /\ \A j \in 1..k - 1 : a[j] = b[j]
          /\ Code[a[k]] < Code[b[k]]
    \/ Len(a) < Len(b) /\ \A j \in 1..Len(a) : a[j] = b[j]

\* C11: list_available_languages returns a list in strictly ascending order (so without
\* duplicates) whose elements are exactly the cached ids, the extension map's values, the
\* installed index and the common ids: every cached and every discovered id is in it, and
\* an id in none of the four sets is not.
C11_ListUnion ==
    [][\A t \in Threads :
          ListStep(t) =>
             LET r == ret'[t].val
             IN  /\ ret'[t].kind = "return"
                 /\ \A i \in 1..Len(r) - 1 : Precedes(r[i], r[i + 1])
                 /\ {r[i] : i \in 1..Len(r)} =
                       DOMAIN languages \cup MapValues \cup installed_languages \cup CommonIds
                 /\ \A id \in CachedIds \cup InstalledIds :
                       (\E i \in 1..Len(r) : r[i] = id) <=>
                          \/ id \in DOMAIN languages
                          \/ id \in MapValues
                          \/ id \in installed_languages
                          \/ id \in CommonIds]_vars

C11_Witness ==
    /\ Returned(Caller, "list_available_languages")
    /\ zig \in DOMAIN languages /\ zig \notin installed_languages
    /\ xpo \in installed_languages
    /\ xpp \notin DOMAIN languages /\ xpp \notin installed_languages
    /\ \E i \in 1..Len(ret[Caller].val) : ret[Caller].val[i] = zig
    /\ \E i \in 1..Len(ret[Caller].val) : ret[Caller].val[i] = xpo
    /\ \A i \in 1..Len(ret[Caller].val) : ret[Caller].val[i] # xpp
    /\ Len(ret[Caller].val) = Cardinality(MapValues \cup CommonIds) + 2


\* C12: get_language_display_name(id) returns and does not raise; it returns the display
\* name discovery recorded for id when there is one and the id itself when there is none,
\* and it changes no registry state.
C12_DisplayName ==
    [][\A t \in Threads :
          (op'[t] = "get_language_display_name" /\ NewOutcome(t)) =>
             /\ UNCHANGED registry_vars
             /\ ret'[t].kind = "return"
             /\ IF arg'[t] \in DOMAIN language_display_names
                  THEN ret'[t].val = language_display_names[arg'[t]]
                  ELSE ret'[t].val = arg'[t]]_vars

C12_Witness ==
    /\ Returned(Caller, "get_language_display_name")
    /\ arg[Caller] = zig
    /\ zig \in installed_languages
    /\ zig \notin DOMAIN language_display_names
    /\ xpp \in DOMAIN language_display_names
    /\ ret[Caller].val = zig


\* C13: the cache changes only by a thread that holds the registry lock inserting an id
\* that was not in the cache: every entry of the cache stays, with the handle it had.
C13_CacheGrowsUnderLock ==
    [][languages' # languages =>
          \E t \in Threads :
             /\ lock_owner = t /\ lock_count > 0
             /\ pc[t] \in {"primary", "fallback"}
             /\ arg[t] \notin DOMAIN languages
             /\ DOMAIN languages' = DOMAIN languages \cup {arg[t]}
             /\ \A id \in DOMAIN languages : languages'[id] = languages[id]]_vars

C13_Witness ==
    /\ DOMAIN languages = LangIds
    /\ languages[python].loader = "pack"
    /\ languages[xpp].loader = "standalone"
    /\ lock_owner = NoThread
    /\ \A t \in Threads : calls_left[t] = 0 /\ pc[t] = "idle"


\* thread t is in get_language with the loaders of its call not yet decided
Loading(t) == pc[t] \in {"primary", "fallback"}

\* C14: in a get_language call for an uncached id the primary loader is invoked first;
\* the fallback is invoked only by a call whose primary invocation has failed, never
\* after the primary succeeded; the handle of the first loader that succeeds is inserted
\* into the cache by the thread while it holds the lock, and it is what the call returns.
C14_LoaderOrder ==
    [][\A t \in Threads :
          /\ (pc[t] = "check" /\ pc'[t] # "check") =>
                IF arg[t] \in DOMAIN languages
                  THEN pc'[t] = "release" /\ UNCHANGED <<primary_calls, fallback_calls>>
                  ELSE pc'[t] = "primary" /\ UNCHANGED <<primary_calls, fallback_calls>>
          /\ (pc[t] = "primary" /\ pc'[t] # "primary") =>
                /\ primary_calls'[arg[t]] = primary_calls[arg[t]] + 1
                /\ UNCHANGED fallback_calls
                /\ pack_error[t] = "none"
                /\ IF pack_error'[t] = "none"
                     THEN /\ pc'[t] = "release"
                          /\ result'[t] = Return(Handle(arg[t], "pack", primary_calls'[arg[t]]))
                          /\ languages'[arg[t]] = result'[t].val
                          /\ lock_owner = t /\ lock_owner' = t
                     ELSE /\ pc'[t] = "fallback"
                          /\ languages' = languages
          /\ (pc[t] = "fallback" /\ pc'[t] # "fallback") =>
                /\ pack_error[t] \in PackFailures
                /\ arg[t] \notin DOMAIN languages
                /\ fallback_calls'[arg[t]] = fallback_calls[arg[t]] + 1
                /\ UNCHANGED primary_calls
                /\ pc'[t] = "release"
                /\ result'[t].kind = "return" =>
                      /\ result'[t] = Return(Handle(arg[t], "standalone", fallback_calls'[arg[t]]))
                      /\ languages'[arg[t]] = result'[t].val
                      /\ lock_owner = t /\ lock_owner' = t
                /\ result'[t].kind # "return" => languages' = languages
          /\ (primary_calls' # primary_calls \/ fallback_calls' # fallback_calls) =>
                \E u \in Threads : Loading(u) /\ pc'[u] # pc[u] /\ lock_owner = u]_vars

C14_Witness ==
    \E t, u \in Threads :
       /\ t # u
       /\ Returned(t, "get_language") /\ arg[t] = xpp
       /\ ret[t].val = Handle(xpp, "standalone", 1)
       /\ primary_calls[xpp] = 1 /\ fallback_calls[xpp] = 1
       /\ Returned(u, "get_language") /\ arg[u] = python
       /\ ret[u].val = Handle(python, "pack", 1)
       /\ primary_calls[python] = 1 /\ fallback_calls[python] = 0
       /\ languages = (xpp :> ret[t].val) @@ (python :> ret[u].val)


\* C15: get_language raises LanguageNotFoundError only in a call that has invoked the
\* primary loader and then the fallback loader for its id and seen both fail, and the
\* error carries the failure of that primary invocation and of that fallback invocation.
C15_NotFoundAfterBoth ==
    [][\A t \in Threads :
          /\ (pc[t] # "release" /\ pc'[t] = "release" /\ result'[t].kind = "raise"
              /\ result'[t].exc = "LanguageNotFoundError") =>
                /\ pc[t] = "fallback"
                /\ pack_error[t] \in PackFailures
                /\ primary_calls[arg[t]] > 0
                /\ fallback_calls'[arg[t]] = fallback_calls[arg[t]] + 1
                /\ arg[t] \notin DOMAIN languages'
                /\ result'[t].pack_error = pack_error[t]
                /\ result'[t].standalone_error \in StandaloneFailures
          /\ (op[t] = "get_language" /\ pc[t] = "release" /\ pc'[t] = "idle"
              /\ ret'[t].kind = "raise" /\ ret'[t].exc = "LanguageNotFoundError") =>
                /\ ret'[t] = result[t]
                /\ ret'[t].pack_error = pack_error[t]
                /\ ret'[t].pack_error \in PackFailures
                /\ ret'[t].standalone_error \in StandaloneFailures]_vars

C15_Witness ==
    \E t \in Threads :
       /\ Raised(t, "get_language")
       /\ ret[t] = LanguageNotFoundError("LookupError", "AttributeError")
       /\ arg[t] = xpp
       /\ primary_calls[xpp] = 1 /\ fallback_calls[xpp] = 1
       /\ xpp \notin DOMAIN languages


\* thread t is inside get_language's with block: cache check, loaders, insertion, return
InSection(t) == pc[t] \in {"check", "primary", "fallback", "release"}

\* C16: at most one thread is inside get_language's check-and-load section at a time,
\* whatever ids the threads ask for, and that thread is the one holding the lock.
C16_MutualExclusion ==
    /\ \A t, u \in Threads : (t # u /\ InSection(t)) => ~InSection(u)
    /\ \A t \in Threads : InSection(t) <=> lock_owner = t
    /\ lock_count = (IF lock_owner = NoThread THEN 0 ELSE 1)

C16_Witness ==
    \E t, u \in Threads :
       /\ t # u
       /\ pc[t] = "fallback" /\ lock_owner = t
       /\ pc[u] = "acquire" /\ arg[u] # arg[t]
       /\ arg[t] = xpp /\ pack_error[t] \in PackFailures


\* C17: every get_language call, made directly or by is_language_available or
\* get_parser, ends: a thread waiting for the lock gets it, a thread holding the lock
\* gives it back, whatever the outcome of the call, and when no call is in progress the
\* lock is free.
C17_NoBlocking ==
    /\ [](\A t \in Threads : lock_owner = t => pc[t] # "idle")
    /\ []((\A t \in Threads : pc[t] = "idle") => lock_owner = NoThread /\ lock_count = 0)
    /\ \A t \in Threads :
          /\ (pc[t] = "acquire") ~> (lock_owner = t)
          /\ (lock_owner = t) ~> (lock_owner # t)
          /\ (pc[t] # "idle") ~> (pc[t] = "idle" /\ ret[t].kind \in {"return", "raise"})

C17_Witness ==
    \E t, u \in Threads :
       /\ t # u
       /\ Raised(t, "get_language") /\ ret[t].exc = "RuntimeError"
       /\ Returned(u, "get_parser") /\ ret[u].val.parser = "cached"
       /\ overlapped[u] = {t} /\ arg[u] = arg[t]
       /\ lock_owner = NoThread /\ lock_count = 0


\* a distribution whose package, taken alone, gives query files to the catalog
GivesQueries(d) ==
    /\ ~d.broken
    /\ IsGrammarName(d.name)
    /\ KeepLangName(LangName(d.name))
    /\ d.package.import = "ok"
    /\ d.package.has_file
    /\ QueriesDir(d.package).exists

\* C18 as stated: whatever unit fails in the package scan (a distribution whose metadata
\* cannot be read, a package that cannot be imported, a missing queries directory, an
\* unreadable file), every readable query file of every other distribution of the scan is
\* in the catalog when the scan is over.
C18_Original ==
    catalog_pc = "done" =>
       \A i \in 1..Len(dists) :
          GivesQueries(dists[i]) =>
             \A n \in DOMAIN ReadFiles(QueriesDir(dists[i].package).files) :
                /\ LangName(dists[i].name) \in DOMAIN templates
                /\ n \in DOMAIN templates[LangName(dists[i].name)]


\* the length of the prefixes tree-sitter- and tree_sitter_
PrefixLen == Len(tree_sitter_hyphen)

\* the name starts with one of the two prefixes
HasPrefix(name) ==
    /\ Len(name) >= PrefixLen
    /\ SubSeq(name, 1, PrefixLen) \in {tree_sitter_hyphen, tree_sitter_underscore}

\* the name without its leading prefix, each hyphen of the rest made an underscore
Candidate(name) ==
    [k \in 1..Len(name) - PrefixLen |->
        IF name[k + PrefixLen] = "-" THEN "_" ELSE name[k + PrefixLen]]

\* the distributions the scan has looked at: those before the first unreadable one
Scanned == {i \in 1..Len(dists) : \A j \in 1..i : ~dists[j].broken}

\* C20 as stated: the installed index holds, for every scanned distribution whose name
\* starts with tree-sitter- or tree_sitter_, the name without that leading prefix and with
\* the remaining hyphens as underscores, unless that id is empty or language_pack; and
\* it holds nothing else.
C20_Original ==
    scan_pc = "done" =>
       installed_languages =
          {Candidate(dists[i].name) :
              i \in {j \in Scanned : /\ HasPrefix(dists[j].name)
                                     /\ Candidate(dists[j].name) # <<>>
                                     /\ Candidate(dists[j].name) # language_pack}}


\* the get_language calls the threads have entered so far
RECURSIVE CallsEntered(_)
CallsEntered(S) ==
    IF S = {} THEN 0
    ELSE LET t == CHOOSE x \in S : TRUE
         IN  (MaxCalls - calls_left[t]) + CallsEntered(S \ {t})

AllIdle == \A t \in Threads : pc[t] = "idle"

\* C21: a failed load leaves nothing in the cache, so every get_language call for an id
\* that is not cached invokes the primary loader, and the fallback after it failed,
\* however many calls for the id have failed before; a loader that then succeeds has
\* its handle inserted and returned. The loader calls for an id stop at the call that
\* loaded it, and N calls for an id that cannot be loaded make N primary and N fallback
\* invocations.
C21_FailedNotCached ==
    /\ [](\A id \in LangIds :
            /\ id \notin DOMAIN languages =>
                  primary_calls[id] =
                     fallback_calls[id]
                        + Cardinality({t \in Threads : pc[t] = "fallback" /\ arg[t] = id})
            /\ (id \in DOMAIN languages /\ languages[id].loader = "pack") =>
                  /\ primary_calls[id] = languages[id].serial
                  /\ fallback_calls[id] = languages[id].serial - 1
            /\ (id \in DOMAIN languages /\ languages[id].loader = "standalone") =>
                  /\ primary_calls[id] = languages[id].serial
                  /\ fallback_calls[id] = languages[id].serial
            /\ (AllIdle /\ languages = EmptyMap
                /\ \A other \in LangIds \ {id} : primary_calls[other] = 0) =>
                  /\ primary_calls[id] = CallsEntered(Threads)
                  /\ fallback_calls[id] = CallsEntered(Threads))
    /\ [][\A t \in Threads :
            /\ (pc[t] = "check" /\ pc'[t] # "check" /\ arg[t] \notin DOMAIN languages) =>
                  pc'[t] = "primary"
            /\ (pc[t] = "primary" /\ pc'[t] = "release") =>
                  /\ primary_calls'[arg[t]] = primary_calls[arg[t]] + 1
                  /\ result'[t].kind = "return"
                  /\ languages'[arg[t]] = result'[t].val
            /\ (pc[t] = "release" /\ pc'[t] = "idle" /\ result[t].kind = "raise") =>
                  /\ arg[t] \notin DOMAIN languages'
                  /\ languages' = languages]_vars

C21_Witness ==
    \E t, u \in Threads :
       /\ t # u
       /\ Raised(t, "get_language") /\ arg[t] = xpp
       /\ ret[t].exc = "LanguageNotFoundError"
       /\ Returned(u, "get_language") /\ arg[u] = xpp
       /\ overlapped[u] = {} /\ overlapped[t] = {}
       /\ ret[u].val = Handle(xpp, "pack", 2)
       /\ languages[xpp] = ret[u].val
       /\ primary_calls[xpp] = 2 /\ fallback_calls[xpp] = 1

====
